---- MODULE Spec2Model ----
(***************************************************************************)
(* Label-wise volumetric overlap of a lesion mask with a label atlas:      *)
(* figures/atlas_overlap/compute_atlas_overlap.py.                         *)
(*                                                                         *)
(* Spec       : one call of compute_stats_atlas, from the image files and  *)
(*              the catalog source to the CSV written at the end.          *)
(* SpecClean  : clean_label applied to a bounded set of strings.           *)
(*                                                                         *)
(* Strings that the code only stores and copies are TLA+ strings; strings  *)
(* that clean_label inspects are sequences of one-character strings.       *)
(* SpecAnyOrder: the iterations of the loop of line 156 run in any order   *)
(*              and their records put back in catalog order.              *)
(* Physical volumes and percentages are floats in the code; they are kept  *)
(* exact here (integers, and a fraction [num, den] for the quotient).      *)
(***************************************************************************)
EXTENDS Integers, Sequences, FiniteSets, TLC

VARIABLES
    pc,                      \* position inside compute_stats_atlas
    atlas_type,              \* the selector argument
    lesion_img,              \* the lesion NIfTI file: shape, data, zooms
    atlas_img,               \* the atlas NIfTI file: shape, data
    csv_file,                \* the catalog table pd.read_csv will find
    lesion_mask_data,        \* line 131
    warped_atlas_mask_data,  \* line 134
    voxel_dims,              \* line 137
    df,                      \* the DataFrame inside a tabular loader
    row_i,                   \* iterrows position inside a tabular loader
    atlas_labels,            \* list of region ids
    atlas_labels_names,      \* dict region id -> name
    region_i,                \* position of the for loop of line 156
    results,                 \* list of records
    output_file,             \* the results sink: what to_csv wrote
    err,                     \* the exception that left the call, if any
    uint8_cast,              \* what this build's out-of-range uint8 cast does
    slots,                   \* records of iterations run out of order, by position
    label_name,              \* clean_label: argument
    cleaned,                 \* clean_label: return value
    cl_pc                    \* clean_label: position

vars == <<pc, atlas_type, lesion_img, atlas_img, csv_file, lesion_mask_data,
          warped_atlas_mask_data, voxel_dims, df, row_i, atlas_labels,
          atlas_labels_names, region_i, results, output_file, err,
          uint8_cast, slots, label_name, cleaned, cl_pc>>

-----------------------------------------------------------------------------
(* Bounds of the explored inputs *)

MaxDim == 3
MaxRows == 2
MaxLen == 4

-----------------------------------------------------------------------------
(* Values that stand for "nothing there" *)

NotLoaded == [shape |-> <<0, 0, 0>>, data |-> <<>>]
NoFile == [exists |-> FALSE, columns |-> {}, rows |-> <<>>]
NoDataFrame == NoFile
NotWritten == [written |-> FALSE, records |-> <<>>]
EmptyDict == [k \in {} |-> ""]

-----------------------------------------------------------------------------
(* numpy arrays: a shape triple and a value per index triple *)

Idx(shape) == (1..shape[1]) \X (1..shape[2]) \X (1..shape[3])

\* the element of arr that broadcasting to a larger shape puts at index i
Bcast(arr, i) ==
    arr.data[<<IF arr.shape[1] = 1 THEN 1 ELSE i[1],
               IF arr.shape[2] = 1 THEN 1 ELSE i[2],
               IF arr.shape[3] = 1 THEN 1 ELSE i[3]>>]

Broadcastable(s, t) ==
    \A k \in 1..3 : s[k] = t[k] \/ s[k] = 1 \/ t[k] = 1

BroadcastShape(s, t) ==
    [k \in 1..3 |-> IF s[k] = 1 THEN t[k] ELSE s[k]]

\* float64 -> uint8.  In range the value is kept; out of range the C cast is
\* undefined and builds either wrap modulo 256 or saturate.
CastModes == {"wrap", "saturate"}

astype_uint8(v, mode) ==
    IF v \in 0..255 THEN v
    ELSE IF mode = "wrap" THEN v % 256
    ELSE IF v < 0 THEN 0 ELSE 255

get_fdata_astype_uint8(img, mode) ==
    [shape |-> img.shape,
     data |-> [i \in Idx(img.shape) |-> astype_uint8(img.data[i], mode)]]

\* lines 159-160: zeros_like, then 1 where the atlas equals region_id.  The
\* comparison of a uint8 array with a Python int is exact: an id outside
\* 0..255 equals no element.
current_atlas_mask_of(atlas_data, region_id) ==
    [shape |-> atlas_data.shape,
     data |-> [i \in Idx(atlas_data.shape) |->
                  IF atlas_data.data[i] = region_id THEN 1 ELSE 0]]

\* line 161: elementwise uint8 product with broadcasting
multiply(a, b) ==
    LET s == BroadcastShape(a.shape, b.shape)
    IN  [shape |-> s,
         data |-> [i \in Idx(s) |-> (Bcast(a, i) * Bcast(b, i)) % 256]]

count_nonzero(arr) == Cardinality({i \in DOMAIN arr.data : arr.data[i] # 0})

prod(dims) == dims[1] * dims[2] * dims[3]

-----------------------------------------------------------------------------
(* The inputs explored *)

Shapes == {<<n, 1, 1>> : n \in 1..MaxDim}

\* atlas file values: background, a small id, and an id above the uint8 range
AtlasValues == {0, 1, 257}

\* lesion file values: a thresholded mask, with one nonzero value other than 1
LesionValues == {0, 2}

\* header zooms of the lesion file; the header can carry a zero spacing
ZoomTriples == {<<1, 1, 2>>, <<0, 1, 1>>}

Images(values) ==
    UNION {[shape : {s}, data : [Idx(s) -> values]] : s \in Shapes}

AtlasTypes == {"neudorfer", "tailrach", "brainstem", "smatt"}

NeudorferColumns == {"Label", "Hemisphere", "Abbreviation", "Name"}
TailrachColumns == {"Index", "Description"}

\* rows of the tabular sources: an id above the uint8 range, and one id in
\* two rows
NeudorferRows ==
    { [Label |-> 1,   Hemisphere |-> "R", Abbreviation |-> "RN", Name |-> "Red"],
      [Label |-> 257, Hemisphere |-> "L", Abbreviation |-> "RN", Name |-> "Red"],
      [Label |-> 1,   Hemisphere |-> "L", Abbreviation |-> "SN", Name |-> "Nigra"] }

TailrachRows ==
    { [Index |-> 0,   Description |-> "Unknown"],
      [Index |-> 1,   Description |-> "Region A"],
      [Index |-> 1,   Description |-> "Region C"] }

SeqsUpTo(S, n) == UNION {[1..k -> S] : k \in 0..n}

\* what pd.read_csv can find: no file, a table lacking the id column, or a
\* table with the expected columns
CsvFiles(columns, idcol, rows) ==
    {NoFile}
    \cup {[exists |-> TRUE, columns |-> columns \ {idcol}, rows |-> <<>>]}
    \cup [exists : {TRUE}, columns : {columns}, rows : SeqsUpTo(rows, MaxRows)]

-----------------------------------------------------------------------------
(* The catalog loaders *)

\* lines 21-51
BrainstemNames ==
    <<"Not_in_Atlas", "CSTL_Atlas", "CSTR_Atlas", "FPTL_Atlas", "FPTR_Atlas",
      "ICPMCL_Atlas", "ICPMCR_Atlas", "ICPVCL_Atlas", "ICPVCR_Atlas",
      "LLL_Atlas", "LLR_Atlas", "MCP_Atlas", "MLL_Atlas", "MLR_Atlas",
      "POTPTL_Atlas", "POTPTR_Atlas", "SCPCRL_Atlas", "SCPCRR_Atlas",
      "SCPCTL_Atlas", "SCPCTR_Atlas", "SCPSCL_Atlas", "SCPSCR_Atlas",
      "STTL_Atlas", "STTR_Atlas">>

load_brainstem_labels ==
    [atlas_labels |-> [i \in 1..24 |-> i - 1],
     atlas_labels_names |-> [k \in 0..23 |-> BrainstemNames[k + 1]]]

\* line 94 / line 71: the id column as a list
column_tolist(frame, col) == [i \in 1..Len(frame.rows) |-> frame.rows[i][col]]

\* line 114, option D
name_str_B(row) == row.Hemisphere \o "_" \o row.Abbreviation

name_str(row) ==
    row.Hemisphere \o "_" \o row.Abbreviation \o "_" \o row.Name

\* dict assignment d[k] = v
dict_set_keep_first(d, k, v) ==
    [x \in (DOMAIN d) \cup {k} |-> IF x \in DOMAIN d THEN d[x] ELSE v]

dict_set(d, k, v) ==
    [x \in (DOMAIN d) \cup {k} |-> IF x = k THEN v ELSE d[x]]

\* lines 142-152: which branch the selector takes
selected_branch_default(t) ==
    IF t = "neudorfer" THEN "neudorfer"
    ELSE IF t = "tailrach" THEN "tailrach"
    ELSE "brainstem"

selected_branch(t) ==
    IF t = "neudorfer" THEN "neudorfer"
    ELSE IF t = "tailrach" THEN "tailrach"
    ELSE IF t = "brainstem" THEN "brainstem"
    ELSE "raise"

-----------------------------------------------------------------------------
(* The per-region computation, lines 156-184 *)

\* line 156: zip(atlas_labels, [atlas_labels_names[label] for label in ...])
zip_skip_background(labels, names) ==
    LET kept == SelectSeq(labels, LAMBDA l : l # 0)
    IN  [i \in 1..Len(kept) |-> <<kept[i], names[kept[i]]>>]

zip_labels_names(labels, names) ==
    [i \in 1..Len(labels) |-> <<labels[i], names[labels[i]]>>]

\* lines 171-174, times 100 at line 183; the float quotient is kept as a
\* fraction
percent_unguarded(lesion_volume, region_volume) ==
    [num |-> 100 * lesion_volume, den |-> region_volume]

percent(lesion_volume, region_volume) ==
    IF region_volume > 0
    THEN [num |-> 100 * lesion_volume, den |-> region_volume]
    ELSE [num |-> 0, den |-> 1]

\* line 161 binds the product to a new name: the lesion grid the next
\* iteration reads is the one this iteration read
lesion_multiplied_in_place(lesion_data, atlas_data, region_id) ==
    multiply(lesion_data, current_atlas_mask_of(atlas_data, region_id))

lesion_after_iteration(lesion_data, atlas_data, region_id) == lesion_data

\* lines 158-184, one iteration; the caller has checked that line 161 can
\* broadcast
region_stat(lesion_data, atlas_data, dims, region_id, region_name) ==
    LET current_atlas_mask == current_atlas_mask_of(atlas_data, region_id)
        current_lesion_mask == multiply(lesion_data, current_atlas_mask)
        lesion_voxel_count == count_nonzero(current_lesion_mask)
        lesion_volume == lesion_voxel_count * prod(dims)
        region_voxel_count == count_nonzero(current_atlas_mask)
        region_volume == region_voxel_count * prod(dims)
    IN  [atlas_label |-> region_name,
         n_label_voxels |-> region_voxel_count,
         label_volume |-> region_volume,
         n_lesion_voxels |-> lesion_voxel_count,
         lesion_volume |-> lesion_volume,
         lesion_percent |-> percent(lesion_volume, region_volume)]

\* the for loop of line 156 has no pair left
loop_exit_early(i, pairs) == i > Len(pairs) \/ i > 1

loop_exhausted(i, pairs) == i > Len(pairs)

-----------------------------------------------------------------------------
(* compute_stats_atlas, lines 121-187 *)

cleanVars == <<label_name, cleaned, cl_pc>>

cleanIdle == /\ label_name = <<>>
             /\ cleaned = <<>>
             /\ cl_pc = "idle"

Init ==
    /\ pc = "load_lesion"
    /\ atlas_type \in AtlasTypes
    /\ uint8_cast \in CastModes
    /\ lesion_img = NotLoaded
    /\ atlas_img = NotLoaded
    /\ csv_file = NoFile
    /\ lesion_mask_data = NotLoaded
    /\ warped_atlas_mask_data = NotLoaded
    /\ voxel_dims = <<>>
    /\ df = NoDataFrame
    /\ row_i = 0
    /\ atlas_labels = <<>>
    /\ atlas_labels_names = EmptyDict
    /\ region_i = 0
    /\ results = <<>>
    /\ output_file = NotWritten
    /\ err = "none"
    /\ slots = <<>>
    /\ cleanIdle

\* lines 130-131: the lesion file is read and cast to uint8
LoadLesion ==
    /\ pc = "load_lesion"
    /\ \E img \in Images(LesionValues), zooms \in ZoomTriples :
          /\ lesion_img' = [shape |-> img.shape, data |-> img.data, zooms |-> zooms]
          /\ lesion_mask_data' = get_fdata_astype_uint8(img, uint8_cast)
    /\ pc' = "load_atlas"
    /\ UNCHANGED <<atlas_type, atlas_img, csv_file, warped_atlas_mask_data,
                   voxel_dims, df, row_i, atlas_labels, atlas_labels_names,
                   region_i, results, output_file, err, uint8_cast, cleanVars, slots>>

\* lines 133-134: the atlas file is read and cast to uint8
LoadAtlas ==
    /\ pc = "load_atlas"
    /\ \E img \in Images(AtlasValues) :
          /\ atlas_img' = img
          /\ warped_atlas_mask_data' = get_fdata_astype_uint8(img, uint8_cast)
    /\ pc' = "get_zooms"
    /\ UNCHANGED <<atlas_type, lesion_img, csv_file, lesion_mask_data,
                   voxel_dims, df, row_i, atlas_labels, atlas_labels_names,
                   region_i, results, output_file, err, uint8_cast, cleanVars, slots>>

\* line 137
GetZooms ==
    /\ pc = "get_zooms"
    /\ voxel_dims' = lesion_img.zooms
    /\ pc' = "select"
    /\ UNCHANGED <<atlas_type, lesion_img, atlas_img, csv_file,
                   lesion_mask_data, warped_atlas_mask_data, df, row_i,
                   atlas_labels, atlas_labels_names, region_i, results,
                   output_file, err, uint8_cast, cleanVars, slots>>

\* lines 151-152: raise Exception("Something went wrong!")
RaiseUnsupported ==
    /\ pc = "select"
    /\ selected_branch(atlas_type) = "raise"
    /\ err' = "Exception"
    /\ pc' = "error"
    /\ UNCHANGED <<atlas_type, lesion_img, atlas_img, csv_file,
                   lesion_mask_data, warped_atlas_mask_data, voxel_dims, df,
                   row_i, atlas_labels, atlas_labels_names, region_i, results,
                   output_file, uint8_cast, cleanVars, slots>>

\* lines 148-149 and 21-51
LoadBrainstem ==
    /\ pc = "select"
    /\ selected_branch(atlas_type) = "brainstem"
    /\ atlas_labels' = load_brainstem_labels.atlas_labels
    /\ atlas_labels_names' = load_brainstem_labels.atlas_labels_names
    /\ region_i' = 1
    /\ pc' = "loop"
    /\ UNCHANGED <<atlas_type, lesion_img, atlas_img, csv_file,
                   lesion_mask_data, warped_atlas_mask_data, voxel_dims, df,
                   row_i, results, output_file, err, uint8_cast, cleanVars, slots>>

\* pd.read_csv and the id column made a list: lines 91-94 (idcol "Label",
\* reached from line 143) and lines 68-71 (idcol "Index", from line 146)
ReadCsv(branch, columns, idcol, rows) ==
    /\ pc = "select"
    /\ selected_branch(atlas_type) = branch
    /\ \E f \in CsvFiles(columns, idcol, rows) :
          /\ csv_file' = f
          /\ IF ~f.exists
             THEN /\ err' = "FileNotFoundError"
                  /\ pc' = "error"
                  /\ UNCHANGED <<df, atlas_labels, row_i, region_i>>
             ELSE IF idcol \notin f.columns
             THEN /\ err' = "KeyError"
                  /\ pc' = "error"
                  /\ df' = f
                  /\ UNCHANGED <<atlas_labels, row_i, region_i>>
             ELSE /\ df' = f
                  /\ atlas_labels' = column_tolist(f, idcol)
                  /\ row_i' = 1
                  /\ region_i' = 1
                  /\ pc' = IF Len(f.rows) = 0 THEN "loop" ELSE branch
                  /\ UNCHANGED err
    /\ UNCHANGED <<atlas_type, lesion_img, atlas_img, lesion_mask_data,
                   warped_atlas_mask_data, voxel_dims, atlas_labels_names,
                   results, output_file, uint8_cast, cleanVars, slots>>

NeudorferRead == ReadCsv("neudorfer", NeudorferColumns, "Label", NeudorferRows)

TailrachRead == ReadCsv("tailrach", TailrachColumns, "Index", TailrachRows)

\* the name a loader gives to a row: line 114, line 77
row_name(branch, row) ==
    IF branch = "neudorfer" THEN name_str(row) ELSE row.Description

\* one iterrows step; after the last row the loader returns (line 118 / 80)
LoaderRow(branch, idcol) ==
    /\ pc = branch
    /\ row_i <= Len(df.rows)
    /\ LET row == df.rows[row_i]
       IN  atlas_labels_names' =
               dict_set(atlas_labels_names, row[idcol], row_name(branch, row))
    /\ row_i' = row_i + 1
    /\ pc' = IF row_i = Len(df.rows) THEN "loop" ELSE branch
    /\ UNCHANGED <<atlas_type, lesion_img, atlas_img, csv_file,
                   lesion_mask_data, warped_atlas_mask_data, voxel_dims, df,
                   atlas_labels, region_i, results, output_file, err,
                   uint8_cast, cleanVars, slots>>

\* lines 100-116
NeudorferRow == LoaderRow("neudorfer", "Label")

\* lines 75-78
TailrachRow == LoaderRow("tailrach", "Index")

\* lines 156-184: one iteration of the loop.  Line 161 raises ValueError
\* when the two shapes cannot be broadcast together.
RegionIteration ==
    /\ pc = "loop"
    /\ ~loop_exhausted(region_i, zip_labels_names(atlas_labels, atlas_labels_names))
    /\ LET pair == zip_labels_names(atlas_labels, atlas_labels_names)[region_i]
       IN  IF Broadcastable(lesion_mask_data.shape, warped_atlas_mask_data.shape)
           THEN /\ results' = Append(results,
                                  region_stat(lesion_mask_data,
                                              warped_atlas_mask_data,
                                              voxel_dims, pair[1], pair[2]))
                /\ lesion_mask_data' =
                      lesion_after_iteration(lesion_mask_data,
                                             warped_atlas_mask_data, pair[1])
                /\ region_i' = region_i + 1
                /\ UNCHANGED <<pc, err>>
           ELSE /\ err' = "ValueError"
                /\ pc' = "error"
                /\ UNCHANGED <<results, region_i, lesion_mask_data>>
    /\ UNCHANGED <<atlas_type, lesion_img, atlas_img, csv_file,
                   warped_atlas_mask_data, voxel_dims, df,
                   row_i, atlas_labels, atlas_labels_names, output_file,
                   uint8_cast, cleanVars, slots>>

\* lines 186-187: the records are written once the loop is over
SaveCsv ==
    /\ pc = "loop"
    /\ loop_exhausted(region_i, zip_labels_names(atlas_labels, atlas_labels_names))
    /\ output_file' = [written |-> TRUE, records |-> results]
    /\ pc' = "done"
    /\ UNCHANGED <<atlas_type, lesion_img, atlas_img, csv_file,
                   lesion_mask_data, warped_atlas_mask_data, voxel_dims, df,
                   row_i, atlas_labels, atlas_labels_names, region_i, results,
                   err, uint8_cast, cleanVars, slots>>

Next ==
    \/ LoadLesion
    \/ LoadAtlas
    \/ GetZooms
    \/ RaiseUnsupported
    \/ LoadBrainstem
    \/ NeudorferRead
    \/ TailrachRead
    \/ NeudorferRow
    \/ TailrachRow
    \/ RegionIteration
    \/ SaveCsv

Spec == Init /\ [][Next]_vars

-----------------------------------------------------------------------------
(* clean_label, lines 9-19.  A string is a sequence of characters. *)

Whitespace == {" "}

Wildcards == <<"*", ".", "*", ".", "*", ".", "*", ".">>

Background == <<"B", "a", "c", "k", "g", "r", "o", "u", "n", "d">>

Alphabet == {"*", ".", " ", "A"}

\* inputs named by the documentation of the function, and near misses
SampleLabels ==
    { Wildcards,
      <<" ">> \o Wildcards \o <<" ">>,
      <<"*", ".", "*", ".", "*", ".", "*">>,
      <<" ", "C", "S", "T", "L", ".", "*">>,
      <<"*", ".", "F", "P", "T", "R">>,
      <<"B", "a", "c", "k", "g", "r", "o", "u", "n", "d">> }

LabelInputs == SeqsUpTo(Alphabet, MaxLen) \cup SampleLabels

RECURSIVE lstrip(_)
lstrip(s) ==
    IF s # <<>> /\ Head(s) \in Whitespace THEN lstrip(Tail(s)) ELSE s

RECURSIVE rstrip(_)
rstrip(s) ==
    IF s # <<>> /\ s[Len(s)] \in Whitespace
    THEN rstrip(SubSeq(s, 1, Len(s) - 1))
    ELSE s

\* str.strip()
strip_left_only(s) == lstrip(s)

strip(s) == rstrip(lstrip(s))

\* str.replace(old, ""): one scan from the left, the matches found do not
\* overlap, and text joined by a removal is not scanned again
RECURSIVE replace_with_empty(_, _)
replace_with_empty(s, old) ==
    IF Len(s) < Len(old) THEN s
    ELSE IF SubSeq(s, 1, Len(old)) = old
         THEN replace_with_empty(SubSeq(s, Len(old) + 1, Len(s)), old)
         ELSE <<Head(s)>> \o replace_with_empty(Tail(s), old)

\* line 15
is_wildcard_only(name) == strip(name) = Wildcards

\* line 18
remove_wildcards_keep_star(name) ==
    replace_with_empty(replace_with_empty(name, <<"*", ".">>), <<".", "*">>)

remove_wildcards(name) ==
    replace_with_empty(
        replace_with_empty(replace_with_empty(name, <<"*", ".">>), <<".", "*">>),
        <<"*">>)

\* the whole function
clean_label(name) ==
    IF is_wildcard_only(name) THEN Background ELSE strip(remove_wildcards(name))

computeIdle ==
    /\ pc = "idle"
    /\ atlas_type = "neudorfer"
    /\ uint8_cast = "wrap"
    /\ lesion_img = NotLoaded
    /\ atlas_img = NotLoaded
    /\ csv_file = NoFile
    /\ lesion_mask_data = NotLoaded
    /\ warped_atlas_mask_data = NotLoaded
    /\ voxel_dims = <<>>
    /\ df = NoDataFrame
    /\ row_i = 0
    /\ atlas_labels = <<>>
    /\ atlas_labels_names = EmptyDict
    /\ region_i = 0
    /\ results = <<>>
    /\ output_file = NotWritten
    /\ err = "none"
    /\ slots = <<>>

computeVars ==
    <<pc, atlas_type, lesion_img, atlas_img, csv_file, lesion_mask_data,
      warped_atlas_mask_data, voxel_dims, df, row_i, atlas_labels,
      atlas_labels_names, region_i, results, output_file, err, uint8_cast,
      slots>>

InitClean ==
    /\ label_name \in LabelInputs
    /\ cleaned = <<>>
    /\ cl_pc = "line15"
    /\ computeIdle

\* lines 15-16
CleanBackground ==
    /\ cl_pc = "line15"
    /\ is_wildcard_only(label_name)
    /\ cleaned' = Background
    /\ cl_pc' = "return"
    /\ UNCHANGED <<label_name, computeVars>>

\* line 18
CleanWildcards ==
    /\ cl_pc = "line15"
    /\ ~is_wildcard_only(label_name)
    /\ cleaned' = remove_wildcards(label_name)
    /\ cl_pc' = "line19"
    /\ UNCHANGED <<label_name, computeVars>>

\* line 19
CleanStrip ==
    /\ cl_pc = "line19"
    /\ cleaned' = strip(cleaned)
    /\ cl_pc' = "return"
    /\ UNCHANGED <<label_name, computeVars>>

NextClean ==
    \/ CleanBackground
    \/ CleanWildcards
    \/ CleanStrip

SpecClean == InitClean /\ [][NextClean]_vars

-----------------------------------------------------------------------------
(* Vocabulary of the properties *)

GridsLoaded == lesion_mask_data # NotLoaded /\ warped_atlas_mask_data # NotLoaded

SameShape == lesion_img.shape = atlas_img.shape

UniqueIds(labels) ==
    \A i, j \in 1..Len(labels) : labels[i] = labels[j] => i = j

\* the catalog is complete: the loader has returned
CatalogLoaded == pc \in {"loop", "done"} \/ (pc = "error" /\ err = "ValueError")

\* the name the catalog source gives to its i-th entry
SourceName(i) ==
    IF atlas_type = "neudorfer"
    THEN csv_file.rows[i].Hemisphere \o "_" \o csv_file.rows[i].Abbreviation
         \o "_" \o csv_file.rows[i].Name
    ELSE IF atlas_type = "tailrach" THEN csv_file.rows[i].Description
    ELSE BrainstemNames[i]

\* cells of the atlas file whose label value is r
LabelCells(r) == {c \in Idx(atlas_img.shape) : atlas_img.data[c] = r}

\* cells whose label value is r and whose lesion value is nonzero
LesionCells(r) == {c \in LabelCells(r) : lesion_img.data[c] # 0}

RECURSIVE SumLesionVoxels(_)
SumLesionVoxels(recs) ==
    IF recs = <<>> THEN 0
    ELSE Head(recs).n_lesion_voxels + SumLesionVoxels(Tail(recs))

\* a fraction lies in [0, 100]
InPercentRange(q) == q.den > 0 /\ 0 <= q.num /\ q.num <= 100 * q.den

-----------------------------------------------------------------------------
(* C1 *)

\* C1: while the loop runs the records are those of the catalog entries
\* already visited, in order, and when the call is done there is exactly one
\* record per catalog entry (region 0 and absent regions included), the i-th
\* carrying the name of the i-th entry.
C1_OneRecordPerEntryInOrder ==
    /\ pc \in {"loop", "done"} =>
          /\ Len(results) = region_i - 1
          /\ Len(results) <= Len(atlas_labels)
          /\ \A i \in 1..Len(results) :
                results[i].atlas_label = atlas_labels_names[atlas_labels[i]]
          /\ UniqueIds(atlas_labels) =>
                \A i \in 1..Len(results) : results[i].atlas_label = SourceName(i)
    /\ pc = "done" =>
          /\ Len(results) = Len(atlas_labels)
          /\ output_file.records = results

\* C1 witness: the built-in catalog on a grid without label 1: 24 records,
\* the first for region 0, the second for an absent region.
C1_Witness ==
    /\ pc = "done"
    /\ atlas_type = "brainstem"
    /\ Len(output_file.records) = 24
    /\ output_file.records[1].atlas_label = "Not_in_Atlas"
    /\ output_file.records[2].atlas_label = "CSTL_Atlas"
    /\ output_file.records[2].n_label_voxels = 0
    /\ output_file.records[24].atlas_label = "STTR_Atlas"

-----------------------------------------------------------------------------
(* C2 *)

\* C2: on grids of one shape, every record counts the cells of the atlas
\* file labelled with its region id, and among them the cells with a nonzero
\* lesion value, whatever integer the label values are.
C2_CountsMatchFileValues ==
    (pc = "done" /\ SameShape) =>
        \A i \in 1..Len(results) :
            /\ results[i].n_label_voxels = Cardinality(LabelCells(atlas_labels[i]))
            /\ results[i].n_lesion_voxels = Cardinality(LesionCells(atlas_labels[i]))

\* C2, restricted to label values that fit uint8: the counts are exact.
C2_CountsMatchWithinUint8 ==
    (pc = "done" /\ SameShape /\ atlas_img = warped_atlas_mask_data) =>
        \A i \in 1..Len(results) :
            /\ results[i].n_label_voxels = Cardinality(LabelCells(atlas_labels[i]))
            /\ results[i].n_lesion_voxels = Cardinality(LesionCells(atlas_labels[i]))

-----------------------------------------------------------------------------
(* C3 *)

\* C3: in every record with a positive region volume the lesion percentage
\* is within [0, 100], the lesion count never exceeding the region count.
C3_PercentWithinBounds ==
    \A i \in 1..Len(results) :
        results[i].label_volume > 0 =>
            /\ InPercentRange(results[i].lesion_percent)
            /\ results[i].n_lesion_voxels <= results[i].n_label_voxels

\* C3, restricted to grids of one shape: the bound holds.
C3_PercentWithinBoundsSameShape ==
    SameShape => C3_PercentWithinBounds

-----------------------------------------------------------------------------
(* C4 *)

\* C4: a record whose region has no voxel has lesion count 0 and a lesion
\* percentage that is exactly 0, a defined value.
C4_AbsentRegionIsZero ==
    \A i \in 1..Len(results) :
        results[i].n_label_voxels = 0 =>
            /\ results[i].n_lesion_voxels = 0
            /\ results[i].lesion_percent.den # 0
            /\ results[i].lesion_percent.num = 0

\* C4 witness: a record for a region without voxels, on a lesion grid that
\* has lesion voxels.
C4_Witness ==
    /\ Len(results) > 0
    /\ results[1].n_label_voxels = 0
    /\ results[1].lesion_percent = [num |-> 0, den |-> 1]
    /\ count_nonzero(lesion_mask_data) > 0

-----------------------------------------------------------------------------
(* C5 *)

\* C5: with unique ids and grids of one shape, the lesion counts of all
\* records add up to the number of lesion-positive cells whose label value
\* is in the catalog.
C5_LesionSumMatchesCatalogCells ==
    (pc = "done" /\ SameShape /\ UniqueIds(atlas_labels)) =>
        SumLesionVoxels(results) =
            Cardinality({c \in Idx(atlas_img.shape) :
                            /\ lesion_img.data[c] # 0
                            /\ \E i \in 1..Len(atlas_labels) :
                                  atlas_img.data[c] = atlas_labels[i]})

-----------------------------------------------------------------------------
(* C6 *)

\* C6: when the two grids differ in shape no record is ever produced,
\* neither a partial list nor a broadcast result.
C6_ShapeMismatchProducesNothing ==
    (GridsLoaded /\ ~SameShape) => results = <<>>

-----------------------------------------------------------------------------
(* C7 *)

RecognizedTypes == {"neudorfer", "tailrach", "brainstem"}

PastSelection == pc \notin {"load_lesion", "load_atlas", "get_zooms", "select"}

\* C7 as stated: exactly the three selector values are recognized, any other
\* fails, and the failure comes before any grid is loaded.
C7_UnsupportedFailsBeforeLoad ==
    /\ (PastSelection /\ atlas_type \notin RecognizedTypes) => err = "Exception"
    /\ err = "Exception" =>
          /\ atlas_type \notin RecognizedTypes
          /\ lesion_mask_data = NotLoaded
          /\ warped_atlas_mask_data = NotLoaded

\* C7 amended: exactly the three selector values are recognized, any other
\* fails, and the failure comes once both grids are loaded and cast but
\* before any catalog is read, any record computed or anything written.
C7_UnsupportedFailsBeforeProcessing ==
    /\ (PastSelection /\ atlas_type \notin RecognizedTypes) => err = "Exception"
    /\ err = "Exception" =>
          /\ atlas_type \notin RecognizedTypes
          /\ pc = "error"
          /\ GridsLoaded
          /\ csv_file = NoFile
          /\ atlas_labels = <<>>
          /\ atlas_labels_names = EmptyDict
          /\ results = <<>>
          /\ ~output_file.written

\* C7 witness: an unrecognized selector has made the call fail, both grids
\* loaded.
C7_Witness ==
    /\ atlas_type = "smatt"
    /\ err = "Exception"
    /\ pc = "error"
    /\ GridsLoaded

-----------------------------------------------------------------------------
(* C8 *)

-----------------------------------------------------------------------------
(* C9 *)

\* the indices of s in increasing order that are not in the set removed
KeepIndices(s, removed) ==
    LET kept == (1..Len(s)) \ removed
    IN  [j \in 1..Cardinality(kept) |->
            s[CHOOSE i \in kept : Cardinality({k \in kept : k <= i}) = j]]

\* s without the occurrences of the two-character pattern <<a, b>>, a # b
WithoutPair(s, a, b) ==
    LET starts == {i \in 1..(Len(s) - 1) : s[i] = a /\ s[i + 1] = b}
    IN  KeepIndices(s, starts \cup {i + 1 : i \in starts})

WithoutChar(s, a) == KeepIndices(s, {i \in 1..Len(s) : s[i] = a})

\* s without its leading and trailing blanks
Trimmed(s) ==
    LET solid == {i \in 1..Len(s) : s[i] # " "}
    IN  IF solid = {} THEN <<>>
        ELSE SubSeq(s, CHOOSE i \in solid : \A k \in solid : i <= k,
                       CHOOSE i \in solid : \A k \in solid : k <= i)

\* C9: clean_label returns for every string: "Background" when the trimmed
\* input is the wildcard pattern, otherwise the input without every "*.",
\* then without every ".*", then without every "*", then trimmed.
C9_CleanLabelContract ==
    /\ cl_pc \in {"line15", "line19"} => ENABLED NextClean
    /\ cl_pc = "return" =>
          /\ cleaned =
                IF Trimmed(label_name) = Wildcards THEN Background
                ELSE Trimmed(WithoutChar(
                        WithoutPair(WithoutPair(label_name, "*", "."), ".", "*"),
                        "*"))
          /\ label_name = Wildcards => cleaned = Background
          /\ label_name = <<" ", "C", "S", "T", "L", ".", "*">>
                => cleaned = <<"C", "S", "T", "L">>
          /\ label_name = <<"*", ".", "F", "P", "T", "R">>
                => cleaned = <<"F", "P", "T", "R">>

\* C9 witness: the suffix wildcard of " CSTL.*" is removed and the result
\* trimmed.
C9_Witness ==
    /\ cl_pc = "return"
    /\ label_name = <<" ", "C", "S", "T", "L", ".", "*">>
    /\ cleaned = <<"C", "S", "T", "L">>

-----------------------------------------------------------------------------
(* C10 *)

\* C10: the neudorfer loader returns the ids in source row order, and for a
\* source with unique ids maps each id to hemisphere_abbreviation_name of
\* its row and nothing else.
C10_NeudorferCatalog ==
    (atlas_type = "neudorfer" /\ CatalogLoaded) =>
        /\ Len(atlas_labels) = Len(csv_file.rows)
        /\ \A i \in 1..Len(csv_file.rows) : atlas_labels[i] = csv_file.rows[i].Label
        /\ DOMAIN atlas_labels_names = {csv_file.rows[i].Label : i \in 1..Len(csv_file.rows)}
        /\ UniqueIds(atlas_labels) =>
              \A i \in 1..Len(csv_file.rows) :
                  atlas_labels_names[csv_file.rows[i].Label] =
                      csv_file.rows[i].Hemisphere \o "_"
                      \o csv_file.rows[i].Abbreviation \o "_"
                      \o csv_file.rows[i].Name

\* C10 witness: a source of two rows, ids 257 then 1, has been loaded.
C10_Witness ==
    /\ atlas_type = "neudorfer"
    /\ pc = "loop"
    /\ atlas_labels = <<257, 1>>
    /\ atlas_labels_names[257] = "L_RN_Red"
    /\ atlas_labels_names[1] = "R_RN_Red"

-----------------------------------------------------------------------------
(* C11 *)

\* a spacing the geometry contract rejects
InvalidSpacing(dims) ==
    Len(dims) # 3 \/ \E k \in 1..Len(dims) : dims[k] <= 0

ZoomsRead == pc \notin {"load_lesion", "load_atlas", "get_zooms"}

\* C11: once a spacing with a component <= 0, or with other than three
\* components, has been read, the call fails without producing a record;
\* with any other spacing every record's volumes are its voxel counts times
\* the product of the three components.
C11_InvalidGeometryFails ==
    /\ (ZoomsRead /\ InvalidSpacing(voxel_dims)) => results = <<>>
    /\ (ZoomsRead /\ ~InvalidSpacing(voxel_dims)) =>
          \A i \in 1..Len(results) :
              /\ results[i].label_volume =
                    results[i].n_label_voxels
                        * (voxel_dims[1] * voxel_dims[2] * voxel_dims[3])
              /\ results[i].lesion_volume =
                    results[i].n_lesion_voxels
                        * (voxel_dims[1] * voxel_dims[2] * voxel_dims[3])

\* C11, the part that holds: whatever the spacing is, every record's volumes
\* are its voxel counts times the product of the components, and no spacing
\* makes the call fail.
C11_VolumeIsCountTimesProduct ==
    ZoomsRead =>
        /\ \A i \in 1..Len(results) :
              /\ results[i].label_volume =
                    results[i].n_label_voxels
                        * (voxel_dims[1] * voxel_dims[2] * voxel_dims[3])
              /\ results[i].lesion_volume =
                    results[i].n_lesion_voxels
                        * (voxel_dims[1] * voxel_dims[2] * voxel_dims[3])
        /\ err \in {"none", "Exception", "FileNotFoundError", "KeyError", "ValueError"}

-----------------------------------------------------------------------------
(* The loop of lines 156-184 with its iterations run in any order.  The    *)
(* call is taken at line 142 with both grids loaded; the catalog is the    *)
(* two-column table, whose orders stay few (the built-in catalog has 24    *)
(* entries and 2^24 sets of finished iterations).                          *)

AnyOrderZooms == <<1, 1, 2>>

InitAnyOrder ==
    /\ pc = "select"
    /\ atlas_type = "tailrach"
    /\ uint8_cast \in CastModes
    /\ \E img \in Images(LesionValues) :
          /\ lesion_img = [shape |-> img.shape, data |-> img.data,
                           zooms |-> AnyOrderZooms]
          /\ lesion_mask_data = get_fdata_astype_uint8(img, uint8_cast)
    /\ \E img \in Images(AtlasValues) :
          /\ atlas_img = img
          /\ warped_atlas_mask_data = get_fdata_astype_uint8(img, uint8_cast)
    /\ voxel_dims = AnyOrderZooms
    /\ csv_file = NoFile
    /\ df = NoDataFrame
    /\ row_i = 0
    /\ atlas_labels = <<>>
    /\ atlas_labels_names = EmptyDict
    /\ region_i = 0
    /\ results = <<>>
    /\ output_file = NotWritten
    /\ err = "none"
    /\ slots = <<>>
    /\ cleanIdle

\* lines 158-184 for any pair of the zip that has no record yet
AnyOrderIteration ==
    /\ pc = "loop"
    /\ \E i \in (1..Len(atlas_labels)) \ DOMAIN slots :
          LET pair == zip_labels_names(atlas_labels, atlas_labels_names)[i]
          IN  IF Broadcastable(lesion_mask_data.shape, warped_atlas_mask_data.shape)
              THEN /\ slots' = [k \in (DOMAIN slots) \cup {i} |->
                                   IF k = i
                                   THEN region_stat(lesion_mask_data,
                                                    warped_atlas_mask_data,
                                                    voxel_dims, pair[1], pair[2])
                                   ELSE slots[k]]
                   /\ lesion_mask_data' =
                         lesion_after_iteration(lesion_mask_data,
                                                warped_atlas_mask_data, pair[1])
                   /\ UNCHANGED <<pc, err>>
              ELSE /\ err' = "ValueError"
                   /\ pc' = "error"
                   /\ UNCHANGED <<slots, lesion_mask_data>>
    /\ UNCHANGED <<atlas_type, lesion_img, atlas_img, csv_file,
                   warped_atlas_mask_data, voxel_dims, df, row_i,
                   atlas_labels, atlas_labels_names, region_i, results,
                   output_file, uint8_cast, cleanVars>>

\* the records put back in catalog order, then lines 186-187
ReassembleAndSave ==
    /\ pc = "loop"
    /\ DOMAIN slots = 1..Len(atlas_labels)
    /\ results' = [i \in 1..Len(atlas_labels) |-> slots[i]]
    /\ output_file' = [written |-> TRUE,
                       records |-> [i \in 1..Len(atlas_labels) |-> slots[i]]]
    /\ pc' = "done"
    /\ UNCHANGED <<atlas_type, lesion_img, atlas_img, csv_file,
                   lesion_mask_data, warped_atlas_mask_data, voxel_dims, df,
                   row_i, atlas_labels, atlas_labels_names, region_i, err,
                   uint8_cast, slots, cleanVars>>

NextAnyOrder ==
    \/ TailrachRead
    \/ TailrachRow
    \/ AnyOrderIteration
    \/ ReassembleAndSave

SpecAnyOrder == InitAnyOrder /\ [][NextAnyOrder]_vars

-----------------------------------------------------------------------------
(* C12 *)

\* the records the loop of line 156 appends when run from the first pair to
\* the last
RECURSIVE SequentialRecords(_, _, _, _)
SequentialRecords(lesion_data, atlas_data, dims, pairs) ==
    IF pairs = <<>> THEN <<>>
    ELSE <<region_stat(lesion_data, atlas_data, dims, pairs[1][1], pairs[1][2])>>
         \o SequentialRecords(
                lesion_after_iteration(lesion_data, atlas_data, pairs[1][1]),
                atlas_data, dims, Tail(pairs))

\* what the sequential loop yields on the grids as they were loaded
SequentialOutput ==
    SequentialRecords(get_fdata_astype_uint8(lesion_img, uint8_cast),
                      get_fdata_astype_uint8(atlas_img, uint8_cast),
                      voxel_dims,
                      zip_labels_names(atlas_labels, atlas_labels_names))

\* C12: whatever the order in which the iterations run, the two grids stay
\* as they were loaded, every record computed so far is the record the
\* sequential loop produces at that position, and the reassembled output is
\* the output of the sequential loop.
C12_AnyOrderSameOutput ==
    /\ pc \in {"loop", "done"} =>
          /\ lesion_mask_data = get_fdata_astype_uint8(lesion_img, uint8_cast)
          /\ warped_atlas_mask_data = get_fdata_astype_uint8(atlas_img, uint8_cast)
    /\ (pc = "loop" /\ Broadcastable(lesion_img.shape, atlas_img.shape)) =>
          \A i \in DOMAIN slots : slots[i] = SequentialOutput[i]
    /\ pc = "done" =>
          /\ results = SequentialOutput
          /\ output_file.records = SequentialOutput

\* C12 witness: the second region's record, with lesion voxels, is computed
\* while the first region's is not, the first region holding lesion voxels
\* too.
C12_Witness ==
    /\ pc = "loop"
    /\ DOMAIN slots = {2}
    /\ atlas_labels[1] # atlas_labels[2]
    /\ slots[2].n_lesion_voxels > 0
    /\ Broadcastable(lesion_img.shape, atlas_img.shape)
    /\ SequentialOutput[1].n_lesion_voxels > 0

-----------------------------------------------------------------------------
(* C13 *)

IdColumn == IF atlas_type = "neudorfer" THEN "Label" ELSE "Index"

SourceId(i) == csv_file.rows[i][IdColumn]

\* the last row of the source with the identifier of row i
LastRowWithIdOf(i) ==
    CHOOSE j \in 1..Len(csv_file.rows) :
        /\ SourceId(j) = SourceId(i)
        /\ \A k \in (j + 1)..Len(csv_file.rows) : SourceId(k) # SourceId(i)

HasDuplicateIds ==
    \E i, j \in 1..Len(csv_file.rows) : i # j /\ SourceId(i) = SourceId(j)

\* C13: with a tabular source, duplicate identifiers included, the call
\* produces one record per row; each record carries the name of the last row
\* that has its identifier, and records of one identifier carry the same
\* voxel counts.
C13_DuplicateIdsLastNameWins ==
    (atlas_type \in {"neudorfer", "tailrach"} /\ pc \in {"loop", "done"}) =>
        /\ pc = "done" => Len(results) = Len(csv_file.rows)
        /\ \A i \in 1..Len(results) :
              /\ results[i].atlas_label = SourceName(LastRowWithIdOf(i))
              /\ \A j \in 1..Len(results) :
                    SourceId(i) = SourceId(j) =>
                        /\ results[i].n_label_voxels = results[j].n_label_voxels
                        /\ results[i].n_lesion_voxels = results[j].n_lesion_voxels
                        /\ results[i].atlas_label = results[j].atlas_label

\* C13 witness: a two-column source with identifier 1 in both rows, named
\* "Region A" then "Region C", on a grid with lesion voxels labelled 1: two
\* records, both named "Region C".
C13_Witness ==
    /\ pc = "done"
    /\ atlas_type = "tailrach"
    /\ HasDuplicateIds
    /\ Len(output_file.records) = 2
    /\ csv_file.rows[1].Description = "Region A"
    /\ output_file.records[1].atlas_label = "Region C"
    /\ output_file.records[2].atlas_label = "Region C"
    /\ output_file.records[1].n_lesion_voxels > 0

-----------------------------------------------------------------------------
(* C14 *)

\* C14: what clean_label returns holds no "*", neither starts nor ends with
\* a blank, and is returned unchanged when clean_label is applied to it.
C14_CleanLabelIdempotent ==
    cl_pc = "return" =>
        /\ \A i \in 1..Len(cleaned) : cleaned[i] # "*"
        /\ cleaned # <<>> => (cleaned[1] # " " /\ cleaned[Len(cleaned)] # " ")
        /\ clean_label(label_name) = cleaned
        /\ clean_label(cleaned) = cleaned

\* C14 witness: " *A " has lost its asterisk and both blanks.
C14_Witness ==
    /\ cl_pc = "return"
    /\ label_name = <<" ", "*", "A", " ">>
    /\ cleaned = <<"A">>

====
